---- MODULE Spec2Model ----
(***************************************************************************)
(* A model of the recursive ray caster of src/main.cpp: Sphere::RayIntersect, *)
(* Refract, Reflect, SceneIntersect and CastRay.                            *)
(*                                                                         *)
(* A float is modelled as a fixed-point integer counting units of 1e-3 (the *)
(* bias constant of CastRay is then exactly one unit), or as NaN.  Every    *)
(* arithmetic operator rounds to the nearest unit, as IEEE arithmetic rounds *)
(* to the nearest float, and a NaN operand gives NaN; every comparison with *)
(* NaN is false.  The recursion of CastRay is an explicit stack of frames.  *)
(*                                                                         *)
(* A unit of 1e-3 is far coarser than a float: the bias of one unit often   *)
(* leaves the origin of a secondary ray on the sphere it starts from, so    *)
(* that the ray meets that sphere again at a distance near 0.  The colours  *)
(* of the model are therefore not those of the image; what is checked is    *)
(* the control flow, the choice among spheres, and the formulas applied.    *)
(*                                                                         *)
(* geometry.hpp is not among the sources: the vector operators are modelled *)
(* from their description, normalise() as a / |a| componentwise.            *)
(*                                                                         *)
(* A local variable of the source is bound once, as the element of a        *)
(* singleton set (Value), so that its initialiser is evaluated once.       *)
(***************************************************************************)
EXTENDS Integers, Sequences, FiniteSets, TLC

(***************************************************************************)
(* float                                                                   *)
(***************************************************************************)
\* one float unit is 1/SCALE; 1e-3 is one unit
SCALE == 1000

\* the float NaN (0 * inf, sqrtf of NaN, ...)
NaN == -2147483647

\* std::numeric_limits<float>::max()
FLT_MAX == 2147483647

\* the value of a local variable: the one element of the singleton S
Value(S) == CHOOSE v \in S : TRUE

IsNaN(x) == x = NaN

Abs(x) == IF x < 0 THEN -x ELSE x

F(n) == n * SCALE

FAdd(a, b) ==
    Value({IF IsNaN(x) \/ IsNaN(y) THEN NaN ELSE x + y : x \in {a}, y \in {b}})

FSub(a, b) ==
    Value({IF IsNaN(x) \/ IsNaN(y) THEN NaN ELSE x - y : x \in {a}, y \in {b}})

FNeg(a) == IF IsNaN(a) THEN NaN ELSE -a

\* hi * lo / SCALE rounded to nearest, hi split so that no intermediate product
\* leaves the integers of the model checker
MulSplit(hi, lo) ==
    (hi \div SCALE) * lo + ((hi % SCALE) * lo + SCALE \div 2) \div SCALE

\* |a| * |b| / SCALE rounded to nearest, the larger factor being the one split
MulAbs(a, b) == IF a < b THEN MulSplit(b, a) ELSE MulSplit(a, b)

\* the sign of a product or quotient of a and b applied to the magnitude m
Signed(a, b, m) == IF (a < 0) = (b < 0) THEN m ELSE -m

FMul(a, b) ==
    Value({IF IsNaN(x) \/ IsNaN(y) THEN NaN
           ELSE Signed(x, y, MulAbs(Abs(x), Abs(y))) : x \in {a}, y \in {b}})

\* |a| / |b| rounded to nearest, for b # 0
DivAbs(x, y) == (x \div y) * SCALE + ((x % y) * SCALE + y \div 2) \div y

\* a / b rounded to nearest; 0/0 is NaN, x/0 saturates
FDiv(a, b) ==
    Value({IF IsNaN(x) \/ IsNaN(y) THEN NaN
           ELSE IF y = 0
                THEN (IF x = 0 THEN NaN ELSE IF x < 0 THEN -FLT_MAX ELSE FLT_MAX)
           ELSE Signed(x, y, DivAbs(Abs(x), Abs(y))) : x \in {a}, y \in {b}})

\* a < b and a > b of floats: false when either is NaN
FLt(a, b) == ~IsNaN(a) /\ ~IsNaN(b) /\ a < b

FGt(a, b) == ~IsNaN(a) /\ ~IsNaN(b) /\ a > b

\* std::max(a, b) is (a < b) ? b : a and std::min(a, b) is (b < a) ? b : a
StdMax(a, b) == IF FLt(a, b) THEN b ELSE a

StdMin(a, b) == IF FLt(b, a) THEN b ELSE a

\* (rh * SCALE + rl) * (rh * SCALE + rl - 1) < SCALE * x, computed without
\* leaving the integers of the model checker
BelowSplit(rh, rl, x) ==
    rh * rh * SCALE + 2 * rh * rl - rh + (rl * rl - rl) \div SCALE < x

\* r * (r - 1) < SCALE * x: the root of x rounds to r or more
BelowRoot(r, x) == BelowSplit(r \div SCALE, r % SCALE, x)

RECURSIVE RootSearch(_, _, _)
\* the largest r in lo..hi with BelowRoot(r, x); BelowRoot(lo, x) holds
RootSearch(lo, hi, x) ==
    IF lo = hi THEN lo
    ELSE Value({IF BelowRoot(mid, x) THEN RootSearch(mid, hi, x)
                ELSE RootSearch(lo, mid - 1, x) : mid \in {(lo + hi + 1) \div 2}})

\* sqrtf: the root rounded to nearest; NaN for NaN and for a negative argument
FSqrt(x) ==
    Value({IF IsNaN(v) \/ v < 0 THEN NaN
           ELSE IF v = 0 THEN 0
           ELSE RootSearch(0, 1460000, v) : v \in {x}})

\* h squared, times b when n is odd
PowStep(b, n, h) == IF n % 2 = 1 THEN FMul(FMul(h, h), b) ELSE FMul(h, h)

RECURSIVE PowN(_, _)
\* b to the n-th power for a natural number n, by repeated squaring
PowN(b, n) ==
    IF n = 0 THEN SCALE ELSE Value({PowStep(b, n, h) : h \in {PowN(b, n \div 2)}})

\* powf(b, e) for a whole exponent e >= 0; powf(x, 0) is 1 for every x
FPow(b, e) == Value({PowN(v, e \div SCALE) : v \in {b}})

(***************************************************************************)
(* Vec3f, Vec4f (geometry.hpp)                                             *)
(***************************************************************************)
Vec3f(a, b, c) == <<a, b, c>>

\* the default-constructed vector
ZeroVec == <<0, 0, 0>>

NaNVec == <<NaN, NaN, NaN>>

VAdd(a, b) == Value({[i \in 1..3 |-> FAdd(x[i], y[i])] : x \in {a}, y \in {b}})

VSub(a, b) == Value({[i \in 1..3 |-> FSub(x[i], y[i])] : x \in {a}, y \in {b}})

VNeg(a) == Value({[i \in 1..3 |-> FNeg(x[i])] : x \in {a}})

\* vector * scalar
VScale(a, s) == Value({[i \in 1..3 |-> FMul(x[i], y)] : x \in {a}, y \in {s}})

\* the sum of the components of a
Sum3(a) == Value({FAdd(FAdd(x[1], x[2]), x[3]) : x \in {a}})

\* vector * vector, the dot product
Dot(a, b) == Value({Sum3([i \in 1..3 |-> FMul(x[i], y[i])]) : x \in {a}, y \in {b}})

Norm(a) == FSqrt(Dot(a, a))

\* a with every component divided by n
VDiv(a, n) == Value({[i \in 1..3 |-> FDiv(x[i], y)] : x \in {a}, y \in {n}})

\* a / |a|; the zero vector has norm 0 and every component becomes 0/0 = NaN
Normalise(a) == Value({VDiv(v, Norm(v)) : v \in {a}})

(***************************************************************************)
(* Light, Material, Sphere                                                 *)
(***************************************************************************)
Light(position, intensity) == [position |-> position, intensity |-> intensity]

\* albedo is a Vec4f; albedo[0..3] of the source are albedo[1..4] here
Material(refractive, albedo, colour, specular) ==
    [refractive_index |-> refractive, albedo |-> albedo,
     diffuse_colour |-> colour, specular_exponent |-> specular]

\* Material(): refractive_index 1, albedo (1, 0, 0, 0), a zero colour and exponent
DefaultMaterial == Material(F(1), <<F(1), 0, 0, 0>>, ZeroVec, 0)

Sphere(center, radius, material) ==
    [center |-> center, radius |-> radius, material |-> material]

\* RayIntersect without `if (t0 < 0) t0 = t1`: the near root is the only candidate
RayRootsNearOnly(tca, d, thc, near, t1) ==
    [ok |-> ~FLt(near, 0), written |-> TRUE, t0 |-> near,
     tca |-> tca, d |-> d, thc |-> thc, t1 |-> t1]

\* Sphere::RayIntersect from `if (t0 < 0) t0 = t1` on: near is tca - thc.  ok is
\* the value returned and t0 the output parameter; the locals are kept
RayRoots(tca, d, thc, near, t1) ==
    [ok |-> ~FLt(IF FLt(near, 0) THEN t1 ELSE near, 0), written |-> TRUE,
     t0 |-> IF FLt(near, 0) THEN t1 ELSE near,
     tca |-> tca, d |-> d, thc |-> thc, t1 |-> t1]

\* Sphere::RayIntersect from thc = sqrtf(...) on
RayChord(tca, d, thc) ==
    Value({RayRoots(tca, d, thc, near, t1) :
              near \in {FSub(tca, thc)}, t1 \in {FAdd(tca, thc)}})

\* RayIntersect with `if (d >= radius_ * radius_) return false`
RayDistanceStrict(tca, d, rr) ==
    IF ~FLt(d, rr)
    THEN [ok |-> FALSE, written |-> FALSE, t0 |-> 0, tca |-> tca, d |-> d,
          thc |-> 0, t1 |-> 0]
    ELSE Value({RayChord(tca, d, thc) : thc \in {FSqrt(FSub(rr, d))}})

\* Sphere::RayIntersect from `if (d > radius_ * radius_)` on, rr being
\* radius_ * radius_; t0 is left unwritten by the early return
RayDistance(tca, d, rr) ==
    IF FGt(d, rr)
    THEN [ok |-> FALSE, written |-> FALSE, t0 |-> 0, tca |-> tca, d |-> d,
          thc |-> 0, t1 |-> 0]
    ELSE Value({RayChord(tca, d, thc) : thc \in {FSqrt(FSub(rr, d))}})

\* Sphere::RayIntersect from tca = L * direction on
RayProject(sphere, L, tca) ==
    Value({RayDistance(tca, d, rr) :
              d \in {FSub(Dot(L, L), FMul(tca, tca))},
              rr \in {FMul(sphere.radius, sphere.radius)}})

\* Sphere::RayIntersect, L being center_ - origin
RayFrom(sphere, L, direction) ==
    Value({RayProject(sphere, L, tca) : tca \in {Dot(L, direction)}})

\* Sphere::RayIntersect
RayIntersect(sphere, origin, direction) ==
    Value({RayFrom(sphere, L, direction) : L \in {VSub(sphere.center, origin)}})

\* Refract from the computation of eta on: k and the locals it is computed from
RefractRatio(cos_i, n, eta) ==
    [cos_i |-> cos_i, n |-> n, eta |-> eta,
     k |-> FSub(F(1), FMul(FMul(eta, eta), FSub(F(1), FMul(cos_i, cos_i))))]

\* Refract from `if (cos_i < 0)` on, c being the first value of cos_i
RefractSide(c, normal, refractive_index) ==
    IF FLt(c, 0)
    THEN RefractRatio(FNeg(c), VNeg(normal), FDiv(refractive_index, F(1)))
    ELSE RefractRatio(c, normal, FDiv(F(1), refractive_index))

\* the locals cos_i, n, eta and k of Refract
RefractLocals(incident, normal, refractive_index) ==
    Value({RefractSide(FNeg(StdMax(-F(1), StdMin(F(1), c))), normal,
                       refractive_index) : c \in {Dot(incident, normal)}})

\* Refract returning the incident direction, not the zero vector, when k < 0
RefractResultStraight(incident, l) ==
    IF FLt(l.k, 0) THEN incident
    ELSE VAdd(VScale(incident, l.eta),
              VScale(l.n, FSub(FMul(l.eta, l.cos_i), FSqrt(l.k))))

\* the value returned by Refract, l being its locals
RefractResult(incident, l) ==
    IF FLt(l.k, 0) THEN Vec3f(0, 0, 0)
    ELSE VAdd(VScale(incident, l.eta),
              VScale(l.n, FSub(FMul(l.eta, l.cos_i), FSqrt(l.k))))

\* Refract: Snell's law; the zero vector when k < 0
Refract(incident, normal, refractive_index) ==
    Value({RefractResult(incident, l) :
              l \in {RefractLocals(incident, normal, refractive_index)}})

\* Reflect: incident - normal*2.f*(incident*normal)
Reflect(incident, normal) ==
    Value({VSub(incident, VScale(VScale(normal, F(2)), c)) :
              c \in {Dot(incident, normal)}})

\* the render distance limit of SceneIntersect
MAX_DISTANCE == F(1000)

\* the body of the if of SceneIntersect: the sphere i at distance dist_i is written
\* to spheres_distance and to the three output parameters
SceneWrite(i, sphere, dist_i, point_hit) ==
    [spheres_distance |-> dist_i, point_hit |-> point_hit,
     normal |-> Normalise(VSub(point_hit, sphere.center)),
     material |-> sphere.material, index |-> i]

\* the loop of SceneIntersect with `dist_i <= spheres_distance`: the last of
\* several spheres at the same distance is kept
SceneStepLast(i, origin, direction, sphere, acc, r) ==
    IF r.ok /\ (FLt(r.t0, acc.spheres_distance) \/ r.t0 = acc.spheres_distance)
    THEN SceneWrite(i, sphere, r.t0, VAdd(origin, VScale(direction, r.t0)))
    ELSE acc

\* one iteration of the loop of SceneIntersect, r being what RayIntersect gave
SceneStep(i, origin, direction, sphere, acc, r) ==
    IF r.ok /\ FLt(r.t0, acc.spheres_distance)
    THEN SceneWrite(i, sphere, r.t0, VAdd(origin, VScale(direction, r.t0)))
    ELSE acc

RECURSIVE SceneLoop(_, _, _, _, _)
\* the loop of SceneIntersect from sphere i on; acc holds spheres_distance and the
\* three output parameters (index is the sphere that wrote them last, 0 for none)
SceneLoop(i, origin, direction, spheres, acc) ==
    IF i > Len(spheres) THEN acc
    ELSE Value({SceneLoop(i + 1, origin, direction, spheres, next) :
                   next \in {SceneStep(i, origin, direction, spheres[i], acc, r) :
                                r \in {RayIntersect(spheres[i], origin, direction)}}})

\* SceneIntersect without a render distance: a hit whenever a sphere was kept
SceneResultNoLimit(acc) ==
    [hit |-> acc.index # 0,
     spheres_distance |-> acc.spheres_distance,
     point_hit |-> acc.point_hit, normal |-> acc.normal,
     material |-> acc.material, index |-> acc.index]

\* the return of SceneIntersect
SceneResult(acc) ==
    [hit |-> FLt(acc.spheres_distance, MAX_DISTANCE),
     spheres_distance |-> acc.spheres_distance,
     point_hit |-> acc.point_hit, normal |-> acc.normal,
     material |-> acc.material, index |-> acc.index]

\* SceneIntersect: hit is the value returned; point_hit, normal and material are
\* the output parameters, which keep the caller's values when no sphere wrote them
SceneIntersect(origin, direction, spheres, point_hit, normal, material) ==
    Value({SceneResult(acc) :
              acc \in {SceneLoop(1, origin, direction, spheres,
                          [spheres_distance |-> FLT_MAX, point_hit |-> point_hit,
                           normal |-> normal, material |-> material,
                           index |-> 0])}})

(***************************************************************************)
(* CastRay                                                                 *)
(***************************************************************************)
\* #define MAXIMUM_DEPTH 4
MAXIMUM_DEPTH == 4

\* the background colour Vec3f(0.2, 0.7, 0.8)
BACKGROUND == Vec3f(200, 700, 800)

\* the bias 1e-3 of the secondary ray origins
BIAS == SCALE \div 1000

\* depth > MAXIMUM_DEPTH + 1: a cap one level deeper
DepthExceededLater(depth) == depth > MAXIMUM_DEPTH + 1

\* depth > MAXIMUM_DEPTH, the first operand of the || of CastRay
DepthExceeded(depth) == depth > MAXIMUM_DEPTH

\* reflect_direction and reflect_origin of a frame f that hit
reflect_direction(f) == Reflect(f.direction, f.normal)

\* the reflected ray always started on the normal's side of the surface
reflect_origin_outside(f) == VAdd(f.point, VScale(f.normal, BIAS))

reflect_origin(f) ==
    IF FLt(Dot(reflect_direction(f), f.normal), 0)
    THEN VSub(f.point, VScale(f.normal, BIAS))
    ELSE VAdd(f.point, VScale(f.normal, BIAS))

\* refract_direction and refract_origin of a frame f that hit
refract_direction(f) ==
    Normalise(Refract(f.direction, f.normal, f.material.refractive_index))

refract_origin(f) ==
    IF FLt(Dot(refract_direction(f), f.normal), 0)
    THEN VSub(f.point, VScale(f.normal, BIAS))
    ELSE VAdd(f.point, VScale(f.normal, BIAS))

\* light_direction, light_distance and shadow_origin of the light loop
light_direction(f, light) == Normalise(VSub(light.position, f.point))

light_distance(f, light) == Norm(VSub(light.position, f.point))

shadow_origin(f, light) ==
    IF FLt(Dot(light_direction(f, light), f.normal), 0)
    THEN VSub(f.point, VScale(f.normal, BIAS))
    ELSE VAdd(f.point, VScale(f.normal, BIAS))

\* the shadow-ray scene query of the light loop
ShadowQuery(f, light, spheres) ==
    Value({SceneIntersect(origin, direction, spheres, ZeroVec, ZeroVec,
                          DefaultMaterial) :
              origin \in {shadow_origin(f, light)},
              direction \in {light_direction(f, light)}})

\* a shadow test that skips the light on any hit, however far
ShadowTestAnyHit(q, origin, distance) == q.hit

\* the condition of the `continue` of the light loop, q being what the shadow
\* query gave
ShadowTest(q, origin, distance) ==
    q.hit /\ FLt(Norm(VSub(q.point_hit, origin)), distance)

Occluded(f, light, spheres) ==
    Value({ShadowTest(q, shadow_origin(f, light), light_distance(f, light)) :
              q \in {ShadowQuery(f, light, spheres)}})

\* what a light that is not skipped adds to diffuse_light_intensity
DiffuseTerm(f, light) ==
    Value({FMul(light.intensity, StdMax(0, c)) :
              c \in {Dot(light_direction(f, light), f.normal)}})

\* what a light that is not skipped adds to specular_light_intensity
SpecularTerm(f, light) ==
    Value({FMul(p, light.intensity) :
              p \in {FPow(StdMax(0, c), f.material.specular_exponent) :
                        c \in {Dot(VNeg(Reflect(VNeg(light_direction(f, light)),
                                                f.normal)), f.direction)}}})

\* the final colour with the reflection and the refraction weighted by the
\* albedo components one slot too low
ShadedColourShifted(f) ==
    VAdd(VAdd(VAdd(VScale(VScale(f.material.diffuse_colour, f.diffuse_light_intensity),
                          f.material.albedo[1]),
                   VScale(VScale(Vec3f(F(1), F(1), F(1)), f.specular_light_intensity),
                          f.material.albedo[2])),
              VScale(f.reflect_colour, f.material.albedo[2])),
         VScale(f.refract_colour, f.material.albedo[3]))

\* the colour returned by an activation that hit
ShadedColour(f) ==
    VAdd(VAdd(VAdd(VScale(VScale(f.material.diffuse_colour, f.diffuse_light_intensity),
                          f.material.albedo[1]),
                   VScale(VScale(Vec3f(F(1), F(1), F(1)), f.specular_light_intensity),
                          f.material.albedo[2])),
              VScale(f.reflect_colour, f.material.albedo[3])),
         VScale(f.refract_colour, f.material.albedo[4]))

\* a light loop that leaves out the last light
MoreLightsButLast(f, lights) == f.i + 1 < Len(lights)

\* the condition i < lights.size() of the light loop
MoreLights(f, lights) == f.i < Len(lights)

\* an activation of CastRay at its first statement
Frame(origin, direction, depth, kind) ==
    [origin |-> origin, direction |-> direction, depth |-> depth, kind |-> kind,
     pc |-> "enter", point |-> ZeroVec, normal |-> ZeroVec,
     material |-> DefaultMaterial, reflect_colour |-> ZeroVec,
     refract_colour |-> ZeroVec, tir |-> FALSE,
     diffuse_light_intensity |-> 0, specular_light_intensity |-> 0, i |-> 0]

VARIABLES
    spheres,    \* the scene's spheres, a sequence
    lights,     \* the scene's lights, a sequence
    stack,      \* the activations of CastRay, the innermost last
    result,     \* the colour returned by the primary activation
    count,      \* how many scene queries, hits and recursions there were
    ev,         \* the step taken last and what it read and wrote
    call,       \* the arguments of a function applied on its own
    ret         \* its result

vars == <<spheres, lights, stack, result, count, ev, call, ret>>

Top == stack[Len(stack)]

\* the hit test of CastRay on the innermost activation
HitQuery == SceneIntersect(Top.origin, Top.direction, spheres,
                           Top.point, Top.normal, Top.material)

\* `return colour` of the innermost activation: it is popped, and the caller
\* resumes with the colour as its reflect_colour or refract_colour; the primary
\* activation's colour is the result
Return(colour) ==
    IF Len(stack) = 1
    THEN /\ stack' = <<>>
         /\ result' = [done |-> TRUE, colour |-> colour]
    ELSE LET caller == stack[Len(stack) - 1]
             resumed == IF caller.pc = "reflecting"
                        THEN [caller EXCEPT !.reflect_colour = colour, !.pc = "refract"]
                        ELSE [caller EXCEPT !.refract_colour = colour, !.pc = "lights"]
         IN  /\ stack' = Append(SubSeq(stack, 1, Len(stack) - 2), resumed)
             /\ UNCHANGED result

\* the innermost activation replaced by f
SetTop(f) == [stack EXCEPT ![Len(stack)] = f]

\* depth > MAXIMUM_DEPTH: the background colour, and SceneIntersect is not called
ReturnDepth ==
    /\ stack # <<>> /\ Top.pc = "enter"
    /\ DepthExceeded(Top.depth)
    /\ Return(BACKGROUND)
    /\ ev' = [type |-> "return", why |-> "depth", frame |-> Top,
              colour |-> BACKGROUND]
    /\ UNCHANGED <<spheres, lights, count, call, ret>>

\* SceneIntersect reports no hit: the background colour
ReturnMiss ==
    /\ stack # <<>> /\ Top.pc = "enter"
    /\ ~DepthExceeded(Top.depth)
    /\ \E q \in {HitQuery} :
          /\ ~q.hit
          /\ ev' = [type |-> "return", why |-> "miss", frame |-> Top,
                    colour |-> BACKGROUND]
    /\ Return(BACKGROUND)
    /\ count' = [count EXCEPT !.query = @ + 1]
    /\ UNCHANGED <<spheres, lights, call, ret>>

\* SceneIntersect reports a hit: point, normal and material are those it wrote
Hit ==
    /\ stack # <<>> /\ Top.pc = "enter"
    /\ ~DepthExceeded(Top.depth)
    /\ \E q \in {HitQuery} :
          /\ q.hit
          /\ stack' = SetTop([Top EXCEPT !.point = q.point_hit,
                                         !.normal = q.normal,
                                         !.material = q.material,
                                         !.pc = "reflect"])
    /\ count' = [count EXCEPT !.query = @ + 1, !.hit = @ + 1]
    /\ ev' = [type |-> "hit", frame |-> Top]
    /\ UNCHANGED <<spheres, lights, result, call, ret>>

\* the recursive call for the reflected ray
CastReflect ==
    /\ stack # <<>> /\ Top.pc = "reflect"
    /\ \E callee \in {Frame(reflect_origin(Top), reflect_direction(Top),
                            Top.depth + 1, "reflect")} :
          /\ stack' = Append(SetTop([Top EXCEPT !.pc = "reflecting"]), callee)
          /\ ev' = [type |-> "ray", kind |-> "reflect", frame |-> Top,
                    direction |-> callee.direction, origin |-> callee.origin]
    /\ count' = [count EXCEPT !.reflect = @ + 1]
    /\ UNCHANGED <<spheres, lights, result, call, ret>>

\* the recursive call for the refracted ray; tir records that Refract found k < 0
CastRefract ==
    /\ stack # <<>> /\ Top.pc = "refract"
    /\ \E callee \in {Frame(refract_origin(Top), refract_direction(Top),
                            Top.depth + 1, "refract")},
          l \in {RefractLocals(Top.direction, Top.normal,
                               Top.material.refractive_index)} :
          /\ stack' = Append(SetTop([Top EXCEPT !.pc = "refracting",
                                                !.tir = FLt(l.k, 0)]), callee)
          /\ ev' = [type |-> "ray", kind |-> "refract", frame |-> Top,
                    direction |-> callee.direction, origin |-> callee.origin,
                    k |-> l.k, refracted |-> RefractResult(Top.direction, l)]
    /\ count' = [count EXCEPT !.refract = @ + 1]
    /\ UNCHANGED <<spheres, lights, result, call, ret>>

\* one iteration of the light loop whose shadow test skips the light
LightSkipped ==
    /\ stack # <<>> /\ Top.pc = "lights"
    /\ MoreLights(Top, lights)
    /\ Occluded(Top, lights[Top.i + 1], spheres)
    /\ \E after \in {[Top EXCEPT !.i = @ + 1]} :
          /\ stack' = SetTop(after)
          /\ ev' = [type |-> "light", skipped |-> TRUE, frame |-> Top,
                    light |-> lights[Top.i + 1], after |-> after]
    /\ count' = [count EXCEPT !.shadow = @ + 1]
    /\ UNCHANGED <<spheres, lights, result, call, ret>>

\* one iteration of the light loop that adds the light's diffuse and specular terms
LightAdded ==
    /\ stack # <<>> /\ Top.pc = "lights"
    /\ MoreLights(Top, lights)
    /\ ~Occluded(Top, lights[Top.i + 1], spheres)
    /\ \E after \in {[Top EXCEPT
              !.i = @ + 1,
              !.diffuse_light_intensity =
                  FAdd(@, DiffuseTerm(Top, lights[Top.i + 1])),
              !.specular_light_intensity =
                  FAdd(@, SpecularTerm(Top, lights[Top.i + 1]))]} :
          /\ stack' = SetTop(after)
          /\ ev' = [type |-> "light", skipped |-> FALSE, frame |-> Top,
                    light |-> lights[Top.i + 1], after |-> after]
    /\ count' = [count EXCEPT !.shadow = @ + 1]
    /\ UNCHANGED <<spheres, lights, result, call, ret>>

\* the light loop is over: the shaded colour is returned
ReturnShaded ==
    /\ stack # <<>> /\ Top.pc = "lights"
    /\ ~MoreLights(Top, lights)
    /\ \E colour \in {ShadedColour(Top)} :
          /\ Return(colour)
          /\ ev' = [type |-> "return", why |-> "shaded", frame |-> Top,
                    colour |-> colour]
    /\ UNCHANGED <<spheres, lights, count, call, ret>>

(***************************************************************************)
(* The scenes and rays CastRay is run on                                   *)
(***************************************************************************)
\* the materials of main()
ivory == Material(F(1), <<600, 300, 100, 0>>, Vec3f(400, 400, 300), F(50))

glass == Material(1500, <<0, 500, 100, 800>>, Vec3f(600, 700, 800), F(125))

red_rubber == Material(F(1), <<900, 100, 0, 0>>, Vec3f(300, 100, 100), F(10))

mirror == Material(F(1), <<0, F(10), 800, 0>>, Vec3f(F(1), F(1), F(1)), F(1425))

\* further materials: one that bends nothing and both reflects and refracts, one
\* thinner than vacuum, and the all-mirror material of the depth-cap test
clear == Material(F(1), <<200, 200, 300, 300>>, Vec3f(500, 500, 500), F(2))

thin == Material(500, <<100, 0, 200, 700>>, Vec3f(100, 900, 100), F(3))

all_mirror == Material(F(1), <<0, 0, F(1), 0>>, Vec3f(0, 0, 0), 0)

\* the spheres of main()
MainSpheres ==
    << Sphere(Vec3f(-F(3), 0, -F(16)), F(2), ivory),
       Sphere(Vec3f(-F(1), -1500, -F(12)), F(2), glass),
       Sphere(Vec3f(1500, -500, -F(18)), F(3), red_rubber),
       Sphere(Vec3f(F(7), F(5), -F(18)), F(4), mirror) >>

\* the lights of main()
MainLights ==
    << Light(Vec3f(-F(20), F(20), F(20)), 1500),
       Light(Vec3f(F(30), F(50), -F(25)), 1800),
       Light(Vec3f(F(30), F(20), F(30)), 1700) >>

\* concentric spheres around the ray origin: every ray started inside hits
Nested(material) ==
    [n \in 1..(MAXIMUM_DEPTH + 1) |-> Sphere(Vec3f(0, 0, 0), F(2 * n), material)]

\* a sphere lit by MainLights[1], one that hides that light from the point
\* (0, 0, -8), and one on the same line beyond the light
ShadowSpheres ==
    << Sphere(Vec3f(0, 0, -F(10)), F(2), red_rubber),
       Sphere(Vec3f(-F(6), F(6), 400), F(2), ivory),
       Sphere(Vec3f(-F(30), F(30), F(34)), F(3), glass) >>

\* the last two alone: the sphere beyond the light is hit by the shadow ray
BeyondSpheres == << ShadowSpheres[1], ShadowSpheres[3] >>

\* spheres whose nearest intersection lies on either side of the render distance
FarSpheres(z) == << Sphere(Vec3f(0, 0, -F(z)), F(2), ivory) >>

\* a sphere of radius 1200 around the camera
HugeSpheres == << Sphere(Vec3f(0, 0, 0), F(1200), all_mirror) >>

\* a sphere thinner than vacuum, hit obliquely by a ray along -z
ThinSpheres == << Sphere(Vec3f(1500, 0, -F(10)), F(2), thin),
                  Sphere(Vec3f(1500, 0, -F(10)), F(5), ivory) >>

MirrorSpheres == << Sphere(Vec3f(0, 0, 0), F(3), all_mirror) >>

\* a case: the spheres, the origin of the primary ray and the vector that
\* Render normalises to its direction
Case(s, origin, towards) == [spheres |-> s, origin |-> origin, towards |-> towards]

Cases ==
    {Case(MainSpheres, ZeroVec, t) :
        t \in {Vec3f(-F(3), 0, -F(16)), Vec3f(-F(1), -1500, -F(12)),
               Vec3f(-F(2), -F(2), -F(12)), Vec3f(1500, -500, -F(18)),
               Vec3f(F(7), F(5), -F(18)), Vec3f(0, F(1), -F(1))}}
    \cup {Case(Nested(m), o, Vec3f(600, 800, 0)) :
            m \in {clear, glass}, o \in {Vec3f(500, 0, 0), Vec3f(1500, 0, 0)}}
    \cup {Case(s, ZeroVec, Vec3f(0, 0, -F(1))) :
            s \in {ShadowSpheres, BeyondSpheres, ThinSpheres, <<>>,
                   FarSpheres(1001), FarSpheres(1002), FarSpheres(1005),
                   HugeSpheres}}
    \cup {Case(HugeSpheres, Vec3f(0, 0, -F(300)), Vec3f(0, 600, -800)),
          Case(MirrorSpheres, Vec3f(F(1), 0, 0), Vec3f(800, 600, 0)),
          Case(ThinSpheres, Vec3f(1500, 0, -F(10)), Vec3f(0, 0, -F(1)))}

\* at most MaxLights of the lights of main() are in the scene
MaxLights == 2

NoCall == [fn |-> "none"]

NoRet == [done |-> FALSE]

NoCount == [query |-> 0, hit |-> 0, reflect |-> 0, refract |-> 0, shadow |-> 0]

\* CastRay(origin, direction, spheres, lights) is called with depth = 0
Init ==
    /\ \E c \in Cases :
          /\ spheres = c.spheres
          /\ stack = << Frame(c.origin, Normalise(c.towards), 0, "primary") >>
    /\ \E n \in 0..MaxLights : lights = SubSeq(MainLights, 1, n)
    /\ result = [done |-> FALSE, colour |-> ZeroVec]
    /\ count = NoCount
    /\ ev = [type |-> "call"]
    /\ call = NoCall
    /\ ret = NoRet

Next ==
    \/ ReturnDepth
    \/ ReturnMiss
    \/ Hit
    \/ CastReflect
    \/ CastRefract
    \/ LightSkipped
    \/ LightAdded
    \/ ReturnShaded

Spec == Init /\ [][Next]_vars

\* CastRay is sequential code: a step that can be taken is taken
FairSpec == Spec /\ WF_vars(Next)

(***************************************************************************)
(* Sphere::RayIntersect applied on its own                                 *)
(***************************************************************************)
\* origins are the points (x, y, 0) with x and y whole in -MaxCoord..MaxCoord
MaxCoord == 3

RaySpheres ==
    {Sphere(Vec3f(0, 0, 0), F(2), ivory),
     Sphere(Vec3f(F(1), -F(1), 0), F(1), glass),
     Sphere(Vec3f(0, 0, 0), 2500, mirror)}

RayOrigins == {Vec3f(F(x), F(y), 0) : x, y \in -MaxCoord..MaxCoord}

\* directions of length one, exactly or to the nearest unit, and the direction
\* that normalise() makes of the zero vector
RayDirections ==
    {Vec3f(F(1), 0, 0), Vec3f(-F(1), 0, 0), Vec3f(0, F(1), 0), Vec3f(0, -F(1), 0),
     Vec3f(0, 0, F(1)), Vec3f(600, 800, 0), Vec3f(-800, 600, 0),
     Vec3f(600, 0, -800), Normalise(Vec3f(F(1), F(1), 0)), Normalise(ZeroVec)}

NoEvent == [type |-> "call"]

Idle ==
    /\ spheres = <<>>
    /\ lights = <<>>
    /\ stack = <<>>
    /\ result = [done |-> FALSE, colour |-> ZeroVec]
    /\ count = NoCount
    /\ ev = NoEvent

InitRay ==
    /\ Idle
    /\ \E s \in RaySpheres, o \in RayOrigins, d \in RayDirections :
          call = [fn |-> "RayIntersect", sphere |-> s, origin |-> o, direction |-> d]
    /\ ret = NoRet

ApplyRayIntersect ==
    /\ call.fn = "RayIntersect" /\ ~ret.done
    /\ ret' = [done |-> TRUE,
               out |-> RayIntersect(call.sphere, call.origin, call.direction)]
    /\ UNCHANGED <<spheres, lights, stack, result, count, ev, call>>

NextRay == ApplyRayIntersect

SpecRay == InitRay /\ [][NextRay]_vars

(***************************************************************************)
(* SceneIntersect applied on its own                                       *)
(***************************************************************************)
\* a scene has at most MaxSpheres spheres
MaxSpheres == 2

\* two spheres that a ray from the camera along -z enters at the same distance 8,
\* spheres entered at 999 and at 1003, a sphere of radius 1200 around the camera,
\* and a sphere above the camera
ScenePool ==
    {Sphere(Vec3f(0, 0, -F(10)), F(2), glass),
     Sphere(Vec3f(F(3), 0, -F(12)), F(5), ivory),
     Sphere(Vec3f(0, 0, -F(1001)), F(2), mirror),
     Sphere(Vec3f(0, 0, -F(1005)), F(2), red_rubber),
     Sphere(Vec3f(0, 0, 0), F(1200), clear),
     Sphere(Vec3f(0, F(4), 0), F(1), thin)}

Scenes == UNION {[1..n -> ScenePool] : n \in 0..MaxSpheres}

SceneOrigins == {ZeroVec, Vec3f(0, 0, -F(5))}

SceneDirections ==
    {Vec3f(0, 0, -F(1)), Vec3f(0, F(1), 0), Vec3f(0, 600, -800), Normalise(ZeroVec)}

InitScene ==
    /\ Idle
    /\ \E s \in Scenes, o \in SceneOrigins, d \in SceneDirections :
          call = [fn |-> "SceneIntersect", spheres |-> s, origin |-> o,
                  direction |-> d]
    /\ ret = NoRet

ApplySceneIntersect ==
    /\ call.fn = "SceneIntersect" /\ ~ret.done
    /\ ret' = [done |-> TRUE,
               out |-> SceneIntersect(call.origin, call.direction, call.spheres,
                                      ZeroVec, ZeroVec, DefaultMaterial)]
    /\ UNCHANGED <<spheres, lights, stack, result, count, ev, call>>

NextScene == ApplySceneIntersect

SpecScene == InitScene /\ [][NextScene]_vars

(***************************************************************************)
(* Claims about Sphere::RayIntersect (under SpecRay)                       *)
(***************************************************************************)
\* RayIntersect has been applied to a ray whose line touches the sphere: the
\* squared distance d it computed equals radius_ * radius_
Tangent ==
    /\ ret.done
    /\ ret.out.d = FMul(call.sphere.radius, call.sphere.radius)

\* C8 as stated: on a tangent ray (d = radius^2) RayIntersect returns true with
\* thc = 0 and t0 = t1 = tca, and never reports a miss.
C8_TangentAlwaysHits ==
    Tangent => /\ ret.out.ok
               /\ ret.out.thc = 0
               /\ ret.out.t0 = ret.out.tca
               /\ ret.out.t1 = ret.out.tca

\* C8 as amended: on a tangent ray (d = radius^2), thc = 0 and t0 = t1 = tca, and
\* RayIntersect returns true exactly when tca is not negative, that is when the
\* point of tangency is not behind the ray origin.
C8_TangentHitsWhenAhead ==
    Tangent => /\ ret.out.thc = 0
               /\ ret.out.t0 = ret.out.tca
               /\ ret.out.t1 = ret.out.tca
               /\ ret.out.ok <=> ~FLt(ret.out.tca, 0)

\* a tangent ray whose point of tangency is ahead of the origin, reported as a hit
C8_Witness == Tangent /\ FGt(ret.out.tca, 0) /\ ret.out.ok

\* the ray origin is strictly inside the sphere and the near root is negative
OriginInside ==
    /\ ret.done
    /\ FLt(Dot(VSub(call.sphere.center, call.origin),
               VSub(call.sphere.center, call.origin)),
           FMul(call.sphere.radius, call.sphere.radius))
    /\ FLt(FSub(ret.out.tca, ret.out.thc), 0)

\* the ray starts at the sphere's center, with a direction that is a number
OriginAtCenter ==
    /\ ret.done
    /\ call.origin = call.sphere.center
    /\ \A i \in 1..3 : ~IsNaN(call.direction[i])

\* C10: with the ray origin inside the sphere (near root tca - thc negative)
\* RayIntersect returns true and t0 is the far root t1 = tca + thc; a ray that
\* starts at the center is intersected with t0 = radius.
C10_InsideReturnsFarRoot ==
    /\ OriginInside => /\ ret.out.ok
                       /\ ret.out.t0 = FAdd(ret.out.tca, ret.out.thc)
                       /\ ret.out.t0 = ret.out.t1
    /\ OriginAtCenter => ret.out.ok /\ ret.out.t0 = call.sphere.radius

\* a ray that starts inside the sphere, off its center, and got the far root
C10_Witness ==
    /\ OriginInside
    /\ call.origin # call.sphere.center
    /\ ret.out.ok
    /\ FGt(ret.out.t0, 0)
    /\ ret.out.tca # 0

(***************************************************************************)
(* Claims about SceneIntersect (under SpecScene)                           *)
(***************************************************************************)
\* what RayIntersect gives for sphere i of the scene SceneIntersect was applied to
Probe(i) == RayIntersect(call.spheres[i], call.origin, call.direction)

\* sphere i is accepted by RayIntersect, no accepted sphere is nearer, and every
\* accepted sphere before it is farther
FirstNearest(i) ==
    /\ Probe(i).ok
    /\ \A j \in 1..Len(call.spheres) :
          Probe(j).ok => /\ ~FLt(Probe(j).t0, Probe(i).t0)
                         /\ j < i => FLt(Probe(i).t0, Probe(j).t0)

\* C3: when SceneIntersect reports a hit, the hit point, the normal and the
\* material are all those of the sphere with the minimum distance among the
\* spheres RayIntersect accepts, the first such sphere when several are at that
\* distance.
C3_NearestFirstSphere ==
    (ret.done /\ ret.out.hit) =>
        \E i \in 1..Len(call.spheres) :
            /\ FirstNearest(i)
            /\ ret.out.index = i
            /\ ret.out.spheres_distance = Probe(i).t0
            /\ ret.out.point_hit =
                   VAdd(call.origin, VScale(call.direction, Probe(i).t0))
            /\ ret.out.normal =
                   Normalise(VSub(ret.out.point_hit, call.spheres[i].center))
            /\ ret.out.material = call.spheres[i].material

\* a hit where a later, different sphere is accepted at exactly the same distance
C3_Witness ==
    /\ ret.done /\ ret.out.hit
    /\ \E j \in 1..Len(call.spheres) :
          /\ j > ret.out.index
          /\ Probe(j).ok
          /\ Probe(j).t0 = ret.out.spheres_distance
          /\ call.spheres[j].material # ret.out.material
          /\ Normalise(VSub(ret.out.point_hit, call.spheres[j].center))
                 # ret.out.normal

(***************************************************************************)
(* Claims about CastRay (under Spec and FairSpec)                          *)
(***************************************************************************)
\* the activations are nested one depth apart from depth 0; none is deeper than
\* MAXIMUM_DEPTH + 1, and one that has queried the scene or has recursed is at
\* depth MAXIMUM_DEPTH at most
DepthBounded ==
    /\ Len(stack) <= MAXIMUM_DEPTH + 2
    /\ \A i \in 1..Len(stack) :
          /\ stack[i].depth = i - 1
          /\ stack[i].pc # "enter" => stack[i].depth <= MAXIMUM_DEPTH
    /\ ev.type = "hit" => ev.frame.depth <= MAXIMUM_DEPTH
    /\ (ev.type = "return" /\ ev.why # "depth") => ev.frame.depth <= MAXIMUM_DEPTH
    /\ (ev.type = "return" /\ ev.why = "depth") =>
          ev.frame.depth = MAXIMUM_DEPTH + 1 /\ ev.colour = BACKGROUND

\* a step of an activation deeper than MAXIMUM_DEPTH returns the background
\* colour to its caller, without a scene query and without a recursive call
DeepStep ==
    (stack # <<>> /\ Top.depth > MAXIMUM_DEPTH) =>
        /\ count' = count
        /\ Len(stack') = Len(stack) - 1
        /\ ev'.type = "return" /\ ev'.colour = BACKGROUND
        /\ BACKGROUND \in {stack'[Len(stack')].reflect_colour,
                           stack'[Len(stack')].refract_colour}

\* C1: CastRay called with depth 0 terminates, whatever the scene and whichever
\* rays hit; the recursion is never deeper than MAXIMUM_DEPTH + 1, only
\* activations at depth 0..MAXIMUM_DEPTH query the scene and recurse, and a
\* deeper activation returns the background colour without querying or recursing.
C1_TerminatesWithinDepth ==
    /\ []DepthBounded
    /\ [][DeepStep]_vars
    /\ <>(result.done /\ stack = <<>>)

\* an activation at depth MAXIMUM_DEPTH + 1 has returned
C1_Witness ==
    /\ ev.type = "return" /\ ev.why = "depth"
    /\ ev.frame.depth = MAXIMUM_DEPTH + 1

\* 2^n
RECURSIVE Pow2(_)
Pow2(n) == IF n = 0 THEN 1 ELSE 2 * Pow2(n - 1)

\* C2: for one primary ray, every hit spawns exactly one reflection and one
\* refraction recursion, the hit tests of the whole recursion tree are at most
\* 2^(MAXIMUM_DEPTH+1) - 1 scene queries, and there is one shadow scene query per
\* light for each activation that hit.
C2_QueryBudget ==
    /\ count.query <= Pow2(MAXIMUM_DEPTH + 1) - 1
    /\ count.refract <= count.reflect /\ count.reflect <= count.hit
    /\ count.shadow <= count.hit * Len(lights)
    /\ result.done => /\ count.reflect = count.hit
                      /\ count.refract = count.hit
                      /\ count.shadow = count.hit * Len(lights)

\* a primary ray whose recursion tree is full, in a scene with lights
C2_Witness ==
    /\ result.done
    /\ count.query = Pow2(MAXIMUM_DEPTH + 1) - 1
    /\ count.hit = count.query
    /\ Len(lights) > 0

\* some sphere is accepted by RayIntersect for the ray of activation f at a
\* distance that is less than 1000
NearerThanLimit(f) ==
    \E i \in 1..Len(spheres) :
        /\ RayIntersect(spheres[i], f.origin, f.direction).ok
        /\ FLt(RayIntersect(spheres[i], f.origin, f.direction).t0, F(1000))

\* C4: SceneIntersect reports a hit if and only if the nearest accepted
\* intersection is at a distance less than 1000; a scene whose nearest
\* intersection is farther, or that is empty, is no hit, and CastRay then returns
\* the background colour.
C4_RenderDistance ==
    /\ ev.type = "hit" => NearerThanLimit(ev.frame)
    /\ (ev.type = "return" /\ ev.why = "miss") =>
          ~NearerThanLimit(ev.frame) /\ ev.colour = BACKGROUND
    /\ (ev.type = "return" /\ ev.why = "shaded") => NearerThanLimit(ev.frame)

\* a miss although RayIntersect accepts a sphere: it is at 1000 or farther
C4_Witness ==
    /\ ev.type = "return" /\ ev.why = "miss"
    /\ \E i \in 1..Len(spheres) :
          /\ RayIntersect(spheres[i], ev.frame.origin, ev.frame.direction).ok
          /\ ~IsNaN(RayIntersect(spheres[i], ev.frame.origin, ev.frame.direction).t0)

\* the origin a secondary ray of direction dir gets at a hit of activation f when
\* the displacement along the normal has the sign sgn for dir * normal < 0 and
\* the opposite sign otherwise
Displaced(f, dir, sgn) ==
    IF FLt(Dot(dir, f.normal), 0)
    THEN VAdd(f.point, VScale(VScale(f.normal, BIAS), sgn))
    ELSE VSub(f.point, VScale(VScale(f.normal, BIAS), sgn))

\* the ray built by the step taken last has the origin Displaced gives for sgn
OriginRule(sgn) ==
    /\ ev.type = "ray" =>
          /\ ev.direction = IF ev.kind = "reflect"
                            THEN Reflect(ev.frame.direction, ev.frame.normal)
                            ELSE Normalise(ev.refracted)
          /\ ev.origin = Displaced(ev.frame, ev.direction, sgn)
    /\ ev.type = "light" =>
          shadow_origin(ev.frame, ev.light) =
              Displaced(ev.frame,
                        Normalise(VSub(ev.light.position, ev.frame.point)), sgn)

\* C7 as stated: the origin of every secondary ray (reflection, refraction,
\* shadow) is the hit point displaced by 1e-3 along the normal with the sign
\* opposite to that of the dot product of the ray's direction with the normal.
C7_OriginOppositeSign == OriginRule(F(1))

\* C7 as amended: the origin of every secondary ray (reflection, refraction,
\* shadow) is the hit point displaced by 1e-3 along the normal with the sign of
\* the dot product of the ray's direction with the normal: point - normal*1e-3
\* when the dot product is negative, point + normal*1e-3 otherwise.
C7_OriginSameSign == OriginRule(-F(1))

\* a reflected ray leaving on the normal's side, displaced along the normal
C7_Witness ==
    /\ ev.type = "ray" /\ ev.kind = "reflect"
    /\ FGt(Dot(ev.direction, ev.frame.normal), 0)
    /\ ev.origin # ev.frame.point
    /\ ev.origin = VAdd(ev.frame.point, VScale(ev.frame.normal, BIAS))

\* the shadow-ray scene query for the light of activation f reports a hit, and the
\* hit is nearer to the shadow origin than the light is to the point
ShadowHitNearer(f, light) ==
    \E o \in {shadow_origin(f, light)} :
        \E q \in {SceneIntersect(o, Normalise(VSub(light.position, f.point)),
                                 spheres, ZeroVec, ZeroVec, DefaultMaterial)} :
            /\ q.hit
            /\ FLt(Norm(VSub(q.point_hit, o)), Norm(VSub(light.position, f.point)))

\* intensity * max(0, light_dir . normal)
LambertTerm(f, light) ==
    FMul(light.intensity,
         StdMax(0, Dot(Normalise(VSub(light.position, f.point)), f.normal)))

\* powf(max(0, -Reflect(-light_dir, normal) . direction), exponent) * intensity
PhongTerm(f, light) ==
    FMul(FPow(StdMax(0, Dot(VNeg(Reflect(VNeg(Normalise(VSub(light.position,
                                                             f.point))),
                                         f.normal)),
                            f.direction)),
              f.material.specular_exponent),
         light.intensity)

\* C5: in the light loop a light is skipped exactly when the shadow-ray scene
\* query reports a hit and the distance from the shadow origin to that hit is
\* less than the distance to the light; a skipped light leaves the diffuse and
\* the specular sum as they were, and every other light adds
\* intensity * max(0, light_dir . normal) to the diffuse sum and its Phong term to
\* the specular sum.
C5_LightOcclusion ==
    ev.type = "light" =>
        /\ Top = ev.after
        /\ ev.after.i = ev.frame.i + 1
        /\ ev.light = lights[ev.after.i]
        /\ ev.skipped <=> ShadowHitNearer(ev.frame, ev.light)
        /\ ev.skipped =>
              /\ ev.after.diffuse_light_intensity = ev.frame.diffuse_light_intensity
              /\ ev.after.specular_light_intensity =
                     ev.frame.specular_light_intensity
        /\ ~ev.skipped =>
              /\ ev.after.diffuse_light_intensity =
                     FAdd(ev.frame.diffuse_light_intensity,
                          LambertTerm(ev.frame, ev.light))
              /\ ev.after.specular_light_intensity =
                     FAdd(ev.frame.specular_light_intensity,
                          PhongTerm(ev.frame, ev.light))

\* a light that faces the surface is skipped: a sphere of another material lies
\* between the point and the light
C5_Witness ==
    /\ ev.type = "light" /\ ev.skipped
    /\ FGt(LambertTerm(ev.frame, ev.light), 0)
    /\ ShadowQuery(ev.frame, ev.light, spheres).material # ev.frame.material
    /\ ev.after.diffuse_light_intensity = ev.frame.diffuse_light_intensity

\* C6: with an empty light list, CastRay on a hit returns exactly
\* reflect_colour * albedo[2] + refract_colour * albedo[3], the diffuse and the
\* specular sum being 0; when albedo[2] and albedo[3] of the material are 0 as
\* well, the colour returned is exactly (0, 0, 0).
C6_NoLightsColour ==
    (ev.type = "return" /\ ev.why = "shaded" /\ lights = <<>>) =>
        /\ ev.frame.diffuse_light_intensity = 0
        /\ ev.frame.specular_light_intensity = 0
        /\ ev.colour = VAdd(VScale(ev.frame.reflect_colour,
                                   ev.frame.material.albedo[3]),
                            VScale(ev.frame.refract_colour,
                                   ev.frame.material.albedo[4]))
        /\ (ev.frame.material.albedo[3] = 0 /\ ev.frame.material.albedo[4] = 0)
              => ev.colour = Vec3f(0, 0, 0)

\* a hit without lights on a material with a colour and albedo[0] > 0, whose
\* reflection and refraction both came back with the background colour, is black
C6_Witness ==
    /\ ev.type = "return" /\ ev.why = "shaded" /\ lights = <<>>
    /\ ev.frame.material.albedo[1] > 0
    /\ ev.frame.material.diffuse_colour # ZeroVec
    /\ ev.frame.reflect_colour = BACKGROUND
    /\ ev.frame.refract_colour = BACKGROUND
    /\ ev.colour = Vec3f(0, 0, 0)

\* k = 1 - eta^2 * (1 - cos_i^2) for the incident ray and the hit of activation
\* f, with cos_i, eta as Refract sets them on either side of the surface
Discriminant(f) ==
    \E c \in {FNeg(StdMax(-F(1), StdMin(F(1), Dot(f.direction, f.normal))))} :
        \E eta \in {IF FLt(c, 0) THEN FDiv(f.material.refractive_index, F(1))
                    ELSE FDiv(F(1), f.material.refractive_index)} :
            ev.k = FSub(F(1), FMul(FMul(eta, eta), FSub(F(1), FMul(c, c))))

\* the step taken last is the refraction recursion of an activation whose
\* refraction discriminant is negative
TotalReflection == ev.type = "ray" /\ ev.kind = "refract" /\ FLt(ev.k, 0)

\* the step taken last is the return of the refraction recursion of the
\* innermost activation, which had a negative discriminant
TotalReflectionReturn ==
    /\ ev.type = "return" /\ ev.frame.kind = "refract"
    /\ stack # <<>> /\ Top.tir /\ Top.pc = "lights"
    /\ ev.frame.depth = Top.depth + 1

\* the scene query for the ray of activation f reports no hit and no sphere
\* wrote the output parameters
MissesEverySphere(f) ==
    \E q \in {SceneIntersect(f.origin, f.direction, spheres, ZeroVec, ZeroVec,
                             DefaultMaterial)} : ~q.hit /\ q.index = 0

\* C9: when the discriminant k = 1 - eta^2 * (1 - cos_i^2) is negative, Refract
\* returns the zero vector, CastRay still makes the refraction recursion with
\* that direction (normalised), the recursive call misses every sphere and
\* returns the background colour, and the caller weights that colour by
\* albedo[3] in its result.
C9_TotalReflectionBackground ==
    /\ (ev.type = "ray" /\ ev.kind = "refract") =>
          /\ Discriminant(ev.frame)
          /\ ev.refracted = Refract(ev.frame.direction, ev.frame.normal,
                                    ev.frame.material.refractive_index)
          /\ stack[Len(stack) - 1].tir <=> FLt(ev.k, 0)
    /\ TotalReflection =>
          /\ ev.refracted = Vec3f(0, 0, 0)
          /\ Top.kind = "refract" /\ Top.pc = "enter"
          /\ Top.depth = ev.frame.depth + 1
          /\ Top.direction = Normalise(Vec3f(0, 0, 0))
          /\ MissesEverySphere(Top)
    /\ TotalReflectionReturn =>
          /\ ev.why # "shaded"
          /\ MissesEverySphere(ev.frame)
          /\ ev.colour = BACKGROUND
          /\ Top.refract_colour = BACKGROUND
    /\ (ev.type = "return" /\ ev.why = "shaded" /\ ev.frame.tir) =>
          /\ ev.frame.refract_colour = BACKGROUND
          /\ ev.colour =
                 VAdd(VAdd(VAdd(VScale(VScale(ev.frame.material.diffuse_colour,
                                              ev.frame.diffuse_light_intensity),
                                       ev.frame.material.albedo[1]),
                                VScale(VScale(Vec3f(F(1), F(1), F(1)),
                                              ev.frame.specular_light_intensity),
                                       ev.frame.material.albedo[2])),
                           VScale(ev.frame.reflect_colour,
                                  ev.frame.material.albedo[3])),
                      VScale(BACKGROUND, ev.frame.material.albedo[4]))

\* the refraction recursion of a total reflection queried a scene with spheres
\* around its origin, missed, and returned the background colour to a caller
\* whose albedo[3] is not 0
C9_Witness ==
    /\ TotalReflectionReturn
    /\ ev.why = "miss"
    /\ spheres # <<>>
    /\ Top.material.albedo[4] > 0
    /\ Top.refract_colour = BACKGROUND

====
